---- MODULE Spec2Model ----
(***************************************************************************)
(* A model of connection.go (package nebula_go): one connection to a       *)
(* graph server, its transport (the graph.GraphServiceClient stub) and the *)
(* calls open, verifyClientVersion, reopen, authenticate, execute*,        *)
(* ExecuteJsonWithParameter, ping, signOut, release and close.             *)
(*                                                                         *)
(* The connection is used by one caller at a time, every call is blocking, *)
(* so each call is one action.  What the server and the network do (the    *)
(* result of every stub call) is chosen by the action's \E.  The calls a   *)
(* handler makes on the stub are recorded, in order, in log, until the     *)
(* caller has taken the handler's result (Return).                         *)
(***************************************************************************)
EXTENDS Integers, Sequences, FiniteSets, TLC

VARIABLES
    cn,          \* the connection struct (connection.go:26-35); graph = 0 is nil
    transports,  \* every GraphServiceClient built so far, [open, verified]; cn.graph indexes it
    log,         \* the stub calls and internal calls of the last handler, in order
    ret,         \* what the last handler returned: [op, val, err]
    openArgs     \* <<the six values of the caller's last call of open, the transport it built (or 0)>>, or <<>>

vars == <<cn, transports, log, ret, openArgs>>

----------------------------------------------------------------------------
\* Bounds of the model.

\* transports that are built in one behaviour
MaxTransports == 2
\* readings of time.Now() by release
MaxClock == 1

----------------------------------------------------------------------------
\* Values the caller and the server can supply.

\* the address the connection is constructed for
ServerAddress == [Host |-> "127.0.0.1", Port |-> 9669]

OpenArgs(hostAddress, timeout, sslConfig, useHTTP2, httpHeader, handshakeKey) ==
    [hostAddress |-> hostAddress, timeout |-> timeout, sslConfig |-> sslConfig,
     useHTTP2 |-> useHTTP2, httpHeader |-> httpHeader, handshakeKey |-> handshakeKey]

\* the calls of open the caller makes: a plain socket to the connection's own
\* address, a TLS socket with a handshake key, cleartext HTTP/2 with headers,
\* and HTTP/2 over TLS to another address
OpenInputs ==
    {OpenArgs(ServerAddress, 0, "nil", FALSE, "nil", ""),
     OpenArgs(ServerAddress, 2, "tls", FALSE, "nil", "3.0.0"),
     OpenArgs(ServerAddress, 0, "nil", TRUE, "hdr", ""),
     OpenArgs([Host |-> "::1", Port |-> 9669], 2, "tls", TRUE, "hdr", "3.0.0")}

\* the entries of an http.Header value, key by key, the values of a key in order
HeaderEntries(h) ==
    IF h = "hdr"
    THEN << <<"Content-Type", "application/json">>, <<"X-Trace", "a">>, <<"X-Trace", "b">> >>
    ELSE <<>>

\* the requests the caller makes: <<sessionID, stmt>>
Requests == {<<0, "YIELD 1">>, <<7, "GO">>}
SessionIDs == {r[1] : r \in Requests}
ParamMaps == {"{}", "{p}"}
Passwords == {"nebula"}
ServerMsg == "client version rejected"

\* results of an RPC on the stub: a response, a thrift.TransportException of
\* type TIMED_OUT or of another type, or an error of another class
RpcOutcomes == {"ok", "TIMED_OUT", "END_OF_FILE", "app"}

\* results of one open attempt: the transport constructor fails, Open() fails,
\* Open() succeeds but IsOpen() is false, and the three VerifyClientVersion replies
OpenOutcomes == {"ctor_err", "open_err", "not_open", "verify_rpc_err", "verify_rejected", "verify_ok"}

CloseOutcomes == {"ok", "err"}

\* results of one ExecuteJsonWithParameter call: of the first RPC, of the
\* reopen (when the first RPC timed out) and of the second RPC (when the
\* reopen succeeded); "-" where the step does not happen
JsonOutcomes ==
    {<<oc1, "-", "-">> : oc1 \in RpcOutcomes \ {"TIMED_OUT"}}
    \cup {<<"TIMED_OUT", roc, "-">> : roc \in OpenOutcomes \ {"verify_ok"}}
    \cup {<<"TIMED_OUT", "verify_ok", oc2>> : oc2 \in RpcOutcomes}

----------------------------------------------------------------------------
\* Errors and responses.

NoErr == [cls |-> "nil", typeID |-> "", msg |-> <<>>, on |-> 0]

TransportException(typeID, t) ==
    [cls |-> "TransportException", typeID |-> typeID, msg |-> <<typeID>>, on |-> t]

PlainError(text, t) == [cls |-> "error", typeID |-> "", msg |-> <<text>>, on |-> t]

\* fmt.Errorf(prefix + "%s", e.Error()): a new error of the plain class whose
\* text is the prefix followed by e's text
Errorf(prefix, e) == [cls |-> "error", typeID |-> "", msg |-> <<prefix>> \o e.msg, on |-> e.on]

\* the error an RPC on transport t returns under outcome oc
RpcError(oc, t) ==
    CASE oc = "ok" -> NoErr
      [] oc \in {"TIMED_OUT", "END_OF_FILE"} -> TransportException(oc, t)
      [] OTHER -> PlainError("rpc failed", t)

NilVal == [kind |-> "nil", on |-> 0]

\* the response an RPC of the given kind on transport t returns under outcome oc
RpcResponse(kind, oc, t) == IF oc = "ok" THEN [kind |-> kind, on |-> t] ELSE NilVal

----------------------------------------------------------------------------
\* The stub (graph.GraphServiceClient over a thrift.Transport).

OpenCount(tr) == Cardinality({i \in DOMAIN tr : tr[i].open})

Ev(ev, t, arg, res, tr) == [ev |-> ev, t |-> t, arg |-> arg, res |-> res, nopen |-> OpenCount(tr)]

Itoa(port) == IF port = 9669 THEN "9669" ELSE "?"

\* net.JoinHostPort: a host holding a colon (an IPv6 literal) is bracketed
JoinHostPort(ip, port) ==
    IF ip = "::1" THEN <<"[", ip, "]:", port>> ELSE <<ip, ":", port>>

BufferSize == 131072

\* the headers open sets on the HTTP client: every entry but Content-Type
SetHeaders(httpHeader) ==
    IF httpHeader = "nil" THEN <<>>
    ELSE SelectSeq(HeaderEntries(httpHeader), LAMBDA kv : kv[1] # "Content-Type")

\* thrift.NewHTTPPostClientWithOptions over an http2.Transport, with the headers set
NewHTTPPostClient(newAdd, sslConfig, httpHeader) ==
    [variant |-> "http2",
     target |-> <<IF sslConfig # "nil" THEN "https://" ELSE "http://">> \o newAdd,
     tls |-> sslConfig, allowHTTP |-> (sslConfig = "nil"),
     timeout |-> 0, bufferSize |-> 0, headers |-> SetHeaders(httpHeader),
     protocol |-> "binary"]

\* thrift.NewHeaderTransport over a buffered (SSL) socket
NewHeaderTransport(newAdd, sslConfig, timeout) ==
    [variant |-> "socket", target |-> newAdd,
     tls |-> sslConfig, allowHTTP |-> FALSE,
     timeout |-> timeout, bufferSize |-> BufferSize, headers |-> <<>>,
     protocol |-> "header"]

\* cn.graph = graph.NewGraphServiceClientFactory(transport, pf): a stub over
\* the transport just constructed, not yet open; what was constructed is
\* recorded with the call
NewGraphServiceClientFactory(w, transport) ==
    LET tr2 == Append(w.tr, [open |-> FALSE, verified |-> FALSE])
    IN  [w EXCEPT !.tr = tr2, !.cn.graph = Len(tr2),
                  !.log = Append(@, Ev("New", Len(tr2), transport, "ok", tr2))]

\* cn.graph.Open(): res is "ok", "err", or "off" (no error, yet not open)
graphOpen(w, res) ==
    LET t == w.cn.graph
        tr2 == [w.tr EXCEPT ![t].open = (res = "ok")]
    IN  [w EXCEPT !.tr = tr2, !.log = Append(@, Ev("Open", t, <<>>, res, tr2)),
                  !.err = IF res = "err" THEN PlainError("dial failed", t) ELSE NoErr]

IsOpen(w) == w.tr[w.cn.graph].open

\* cn.graph.Close(): the transport is released, also when it was released
\* before; res says whether Close reports an error. The record of the call
\* keeps, in place of arguments, whether the call found the transport open.
graphClose(w, res) ==
    LET t == w.cn.graph
        tr2 == [w.tr EXCEPT ![t].open = FALSE]
    IN  [w EXCEPT !.tr = tr2, !.log = Append(@, Ev("Close", t, <<w.tr[t].open>>, res, tr2)),
                  !.err = IF res = "err" THEN PlainError("close failed", t) ELSE NoErr]

\* an RPC of the stub: the request is sent on cn.graph, oc is its result
graphCall(w, rpc, arg, oc) ==
    LET t == w.cn.graph
    IN  [w EXCEPT !.log = Append(@, Ev(rpc, t, arg, oc, w.tr)),
                  !.val = RpcResponse(rpc, oc, t), !.err = RpcError(oc, t)]

\* the results an RPC can have on cn.graph: a transport that is not open
\* answers nothing
RpcOutcomesOn(w) == IF w.cn.graph # 0 /\ IsOpen(w) THEN RpcOutcomes ELSE RpcOutcomes \ {"ok"}

----------------------------------------------------------------------------
\* connection.go

newConnection(severAddress) ==
    [severAddress |-> severAddress, timeout |-> 0, returnedAt |-> 0,
     sslConfig |-> "nil", useHTTP2 |-> FALSE, httpHeader |-> "nil",
     handshakeKey |-> "", graph |-> 0]

\* close forgetting the stub after Close
closeForgetsStub(w) == [graphClose(w, "ok") EXCEPT !.err = w.err, !.cn.graph = 0]

\* close: cn.graph.Close(), its error dropped
close(w) == [graphClose(w, "ok") EXCEPT !.err = w.err]

\* graph.NewVerifyClientVersionReq(), with SetVersion(handshakeKey) when a key
\* is configured; without one the request keeps the version the constructor
\* gives it
\* the request with SetVersion called whatever the key is
VerifyClientVersionReqAlwaysSet(handshakeKey) == [version |-> handshakeKey]

VerifyClientVersionReq(handshakeKey) ==
    [version |-> IF handshakeKey # "" THEN handshakeKey ELSE "default"]

\* verifyClientVersion without the close of the RPC-error branch
verifyClientVersionNoClose(w, oc) ==
    LET t == w.cn.graph
        w1 == [w EXCEPT !.log = Append(@, Ev("VerifyClientVersion", t, VerifyClientVersionReq(w.cn.handshakeKey), oc, w.tr))]
    IN  IF oc = "verify_rpc_err"
        THEN [w1 EXCEPT !.err = Errorf("failed to verify client handshakeKey: ",
                                       TransportException("END_OF_FILE", t))]
        ELSE IF oc = "verify_rejected"
        THEN [w1 EXCEPT !.err = Errorf("incompatible handshakeKey between client and server: ",
                                       PlainError(ServerMsg, t))]
        ELSE [w1 EXCEPT !.tr[t].verified = TRUE, !.err = NoErr]

\* verifyClientVersion; oc is the reply to the VerifyClientVersion request
verifyClientVersion(w, oc) ==
    LET t == w.cn.graph
        req == VerifyClientVersionReq(w.cn.handshakeKey)
        w1 == [w EXCEPT !.log = Append(@, Ev("VerifyClientVersion", t, req, oc, w.tr))]
    IN  IF oc = "verify_rpc_err"
        THEN [close(w1) EXCEPT !.err = Errorf("failed to verify client handshakeKey: ",
                                              TransportException("END_OF_FILE", t))]
        ELSE IF oc = "verify_rejected"
        THEN [w1 EXCEPT !.err = Errorf("incompatible handshakeKey between client and server: ",
                                       PlainError(ServerMsg, t))]
        ELSE [w1 EXCEPT !.tr[t].verified = TRUE, !.err = NoErr]

\* open building the stub before it looks at the constructor's error
openStoresFailedTransport(w, hostAddress, timeout, sslConfig, useHTTP2, httpHeader, handshakeKey, oc) ==
    LET newAdd == JoinHostPort(hostAddress.Host, Itoa(hostAddress.Port))
        args == OpenArgs(hostAddress, timeout, sslConfig, useHTTP2, httpHeader, handshakeKey)
        w1 == [w EXCEPT !.cn.timeout = timeout, !.cn.useHTTP2 = useHTTP2,
                        !.cn.handshakeKey = handshakeKey,
                        !.log = Append(@, Ev("open", 0, args, oc, w.tr))]
        transport == IF useHTTP2
                     THEN NewHTTPPostClient(newAdd, sslConfig, httpHeader)
                     ELSE NewHeaderTransport(newAdd, sslConfig, timeout)
        w2 == NewGraphServiceClientFactory(w1, transport)
    IN  IF oc = "ctor_err"
        THEN [w2 EXCEPT !.err = Errorf("failed to create a net.Conn-backed Transport,: ",
                                       PlainError("bad address", 0))]
        ELSE LET w3 == graphOpen(w2, CASE oc = "open_err" -> "err"
                                       [] oc = "not_open" -> "off"
                                       [] OTHER -> "ok")
             IN  IF w3.err # NoErr
                 THEN [w3 EXCEPT !.err = Errorf("failed to open transport, error: ", w3.err)]
                 ELSE IF ~IsOpen(w3)
                 THEN [w3 EXCEPT !.err = PlainError("transport is off", w3.cn.graph)]
                 ELSE verifyClientVersion(w3, oc)

\* open; oc is the result of this attempt
open(w, hostAddress, timeout, sslConfig, useHTTP2, httpHeader, handshakeKey, oc) ==
    LET newAdd == JoinHostPort(hostAddress.Host, Itoa(hostAddress.Port))
        args == OpenArgs(hostAddress, timeout, sslConfig, useHTTP2, httpHeader, handshakeKey)
        w1 == [w EXCEPT !.cn.timeout = timeout, !.cn.useHTTP2 = useHTTP2,
                        !.cn.handshakeKey = handshakeKey,
                        !.log = Append(@, Ev("open", 0, args, oc, w.tr))]
        transport == IF useHTTP2
                     THEN NewHTTPPostClient(newAdd, sslConfig, httpHeader)
                     ELSE NewHeaderTransport(newAdd, sslConfig, timeout)
    IN  IF oc = "ctor_err"
        THEN [w1 EXCEPT !.err = Errorf("failed to create a net.Conn-backed Transport,: ",
                                       PlainError("bad address", 0))]
        ELSE LET w2 == NewGraphServiceClientFactory(w1, transport)
                 w3 == graphOpen(w2, CASE oc = "open_err" -> "err"
                                       [] oc = "not_open" -> "off"
                                       [] OTHER -> "ok")
             IN  IF w3.err # NoErr
                 THEN [w3 EXCEPT !.err = Errorf("failed to open transport, error: ", w3.err)]
                 ELSE IF ~IsOpen(w3)
                 THEN [w3 EXCEPT !.err = PlainError("transport is off", w3.cn.graph)]
                 ELSE verifyClientVersion(w3, oc)

\* reopen without the close
reopenWithoutClose(w, oc) ==
    LET w1 == [w EXCEPT !.log = Append(@, Ev("reopen", w.cn.graph, <<>>, oc, w.tr))]
    IN  open(w1, w1.cn.severAddress, w1.cn.timeout, w1.cn.sslConfig, w1.cn.useHTTP2,
             w1.cn.httpHeader, w1.cn.handshakeKey, oc)

\* reopen opening the new transport first and closing the old one afterwards
reopenBeforeClose(w, oc) ==
    LET old == w.cn.graph
        w1 == [w EXCEPT !.log = Append(@, Ev("reopen", old, <<>>, oc, w.tr))]
        w2 == open(w1, w1.cn.severAddress, w1.cn.timeout, w1.cn.sslConfig, w1.cn.useHTTP2,
                   w1.cn.httpHeader, w1.cn.handshakeKey, oc)
    IN  [graphClose([w2 EXCEPT !.cn.graph = old], "ok")
            EXCEPT !.cn.graph = w2.cn.graph, !.err = w2.err]

\* reopen authenticating again on the fresh transport
reopenAuthenticates(w, oc) ==
    LET w1 == close([w EXCEPT !.log = Append(@, Ev("reopen", w.cn.graph, <<>>, oc, w.tr))])
        w2 == open(w1, w1.cn.severAddress, w1.cn.timeout, w1.cn.sslConfig, w1.cn.useHTTP2,
                   w1.cn.httpHeader, w1.cn.handshakeKey, oc)
    IN  IF w2.err # NoErr
        THEN w2
        ELSE [graphCall(w2, "Authenticate", <<"root", "nebula">>, "ok") EXCEPT !.val = w2.val]

\* reopen: close, then open with the connection's stored fields
reopen(w, oc) ==
    LET w1 == close([w EXCEPT !.log = Append(@, Ev("reopen", w.cn.graph, <<>>, oc, w.tr))])
    IN  open(w1, w1.cn.severAddress, w1.cn.timeout, w1.cn.sslConfig, w1.cn.useHTTP2,
             w1.cn.httpHeader, w1.cn.handshakeKey, oc)

\* authenticate keeping the authentication error when Close fails too
authenticateKeepsFirstError(w, username, password, oc, coc) ==
    LET w1 == graphCall(w, "Authenticate", <<username, password>>, oc)
    IN  IF w1.err # NoErr
        THEN [graphClose(w1, coc) EXCEPT !.val = NilVal,
                                         !.err = Errorf("authentication fails, ", w1.err)]
        ELSE w1

\* authenticate; oc is the result of the Authenticate RPC, coc of Close
authenticate(w, username, password, oc, coc) ==
    LET w1 == graphCall(w, "Authenticate", <<username, password>>, oc)
    IN  IF w1.err # NoErr
        THEN LET err == Errorf("authentication fails, ", w1.err)
                 w2 == graphClose(w1, coc)
             IN  [w2 EXCEPT !.val = NilVal,
                            !.err = IF w2.err # NoErr
                                    THEN Errorf("fail to close transport, error: ", w2.err)
                                    ELSE err]
        ELSE w1

\* executeWithParameter closing the transport when the RPC fails
executeWithParameterCloses(w, sessionID, stmt, params, oc) ==
    LET w1 == graphCall(w, "ExecuteWithParameter", <<sessionID, stmt, params>>, oc)
    IN  IF w1.err # NoErr THEN [close(w1) EXCEPT !.val = NilVal] ELSE w1

executeWithParameter(w, sessionID, stmt, params, oc) ==
    LET w1 == graphCall(w, "ExecuteWithParameter", <<sessionID, stmt, params>>, oc)
    IN  IF w1.err # NoErr THEN [w1 EXCEPT !.val = NilVal] ELSE w1

execute(w, sessionID, stmt, oc) == executeWithParameter(w, sessionID, stmt, "{}", oc)

executeWithParameterTimeout(w, sessionID, stmt, params, timeoutMs, oc) ==
    graphCall(w, "ExecuteWithTimeout", <<sessionID, stmt, params, timeoutMs>>, oc)

\* err.(thrift.TransportException) succeeds
IsTransportException(err) == err.cls = "TransportException"

\* the TypeID test left out: every transport exception counts as a timeout
IsTimedOutAlways(err) == TRUE

\* err.(thrift.TransportException).TypeID() == thrift.TIMED_OUT
IsTimedOut(err) == err.typeID = "TIMED_OUT"

\* the timeout branch returning the first RPC's error after the second RPC
reissueKeepsFirstError(w, sessionID, stmt, params, roc, oc2) ==
    LET w1 == reopen(w, roc)
    IN  IF w1.err # NoErr
        THEN [w1 EXCEPT !.val = NilVal]
        ELSE [graphCall(w1, "ExecuteJsonWithParameter", <<sessionID, stmt, params>>, oc2)
                 EXCEPT !.err = IF @ # NoErr THEN w.err ELSE @]

\* the timeout branch returning the timeout when the reopen fails
reopenFailureKeepsTimeout(w, sessionID, stmt, params, roc, oc2) ==
    LET w1 == reopen(w, roc)
    IN  IF w1.err # NoErr
        THEN [w1 EXCEPT !.val = NilVal, !.err = w.err]
        ELSE graphCall(w1, "ExecuteJsonWithParameter", <<sessionID, stmt, params>>, oc2)

\* the timeout branch taken again when the second RPC times out
reopenAndReissueAgain(w, sessionID, stmt, params, roc, oc2) ==
    LET w1 == reopen(w, roc)
        w2 == graphCall(w1, "ExecuteJsonWithParameter", <<sessionID, stmt, params>>, oc2)
        w3 == reopen(w2, roc)
    IN  IF w1.err # NoErr
        THEN [w1 EXCEPT !.val = NilVal]
        ELSE IF w2.err # NoErr /\ IsTransportException(w2.err) /\ w2.err.typeID = "TIMED_OUT"
        THEN IF w3.err # NoErr
             THEN [w3 EXCEPT !.val = NilVal]
             ELSE graphCall(w3, "ExecuteJsonWithParameter", <<sessionID, stmt, params>>, oc2)
        ELSE w2

\* the timeout branch sending the request again whatever reopen returned
reissueAfterFailedReopen(w, sessionID, stmt, params, roc, oc2) ==
    graphCall(reopen(w, roc), "ExecuteJsonWithParameter", <<sessionID, stmt, params>>, oc2)

\* the timeout branch of ExecuteJsonWithParameter: reopen, then the request
\* once more; roc is the result of the reopen, oc2 of the second RPC
reopenAndReissue(w, sessionID, stmt, params, roc, oc2) ==
    LET w1 == reopen(w, roc)
    IN  IF w1.err # NoErr
        THEN [w1 EXCEPT !.val = NilVal]
        ELSE graphCall(w1, "ExecuteJsonWithParameter", <<sessionID, stmt, params>>, oc2)

ExecuteJsonWithParameter(w, sessionID, stmt, params, oc1, roc, oc2) ==
    LET w1 == graphCall(w, "ExecuteJsonWithParameter", <<sessionID, stmt, params>>, oc1)
    IN  IF w1.err # NoErr /\ IsTransportException(w1.err) /\ IsTimedOut(w1.err)
        THEN reopenAndReissue(w1, sessionID, stmt, params, roc, oc2)
        ELSE w1

executeJson(w, sessionID, stmt, oc1, roc, oc2) ==
    ExecuteJsonWithParameter(w, sessionID, stmt, "{}", oc1, roc, oc2)

\* ping with the test of the error inverted
pingInverted(w, oc) ==
    LET w1 == execute(w, 0, "YIELD 1", oc)
    IN  [w1 EXCEPT !.val = [kind |-> IF w1.err # NoErr THEN "true" ELSE "false", on |-> 0],
                   !.err = NoErr]

ping(w, oc) ==
    LET w1 == execute(w, 0, "YIELD 1", oc)
    IN  [w1 EXCEPT !.val = [kind |-> IF w1.err = NoErr THEN "true" ELSE "false", on |-> 0],
                   !.err = NoErr]

signOut(w, sessionID, oc) ==
    [graphCall(w, "Signout", <<sessionID>>, oc) EXCEPT !.val = NilVal]

\* release clearing the stored timeout as well
releaseClearsTimeout(w, now) == [w EXCEPT !.cn.returnedAt = now, !.cn.timeout = 0]

release(w, now) == [w EXCEPT !.cn.returnedAt = now]

----------------------------------------------------------------------------
\* The state machine.

\* the state a handler starts from
W0 == [cn |-> cn, tr |-> transports, log |-> <<>>, val |-> NilVal, err |-> NoErr]

\* the state a handler leaves
Returns(op, w) ==
    /\ cn' = w.cn
    /\ transports' = w.tr
    /\ log' = w.log
    /\ ret' = [op |-> op, val |-> w.val, err |-> w.err]

\* a call through a nil cn.graph panics: no handler that uses the stub
\* returns before the first transport is built
HasGraph == cn.graph # 0

\* the caller makes one call at a time, and makes the next once it has the
\* result of the last
Idle == ret.op = "none"

\* the attempt builds a transport
Builds(oc) == oc # "ctor_err"

Room(oc) == Builds(oc) => Len(transports) < MaxTransports

Init ==
    /\ cn = newConnection(ServerAddress)
    /\ transports = <<>>
    /\ log = <<>>
    /\ ret = [op |-> "none", val |-> NilVal, err |-> NoErr]
    /\ openArgs = <<>>

Open ==
    \E a \in OpenInputs, oc \in OpenOutcomes :
        /\ Idle
        /\ Room(oc)
        /\ Returns("open", open(W0, a.hostAddress, a.timeout, a.sslConfig, a.useHTTP2,
                                a.httpHeader, a.handshakeKey, oc))
        /\ openArgs' = <<a, IF Builds(oc) THEN Len(transports) + 1 ELSE 0>>

Reopen ==
    \E oc \in OpenOutcomes :
        /\ Idle /\ HasGraph
        /\ Room(oc)
        /\ Returns("reopen", reopen(W0, oc))
        /\ UNCHANGED openArgs

Authenticate ==
    \E pw \in Passwords, oc \in RpcOutcomesOn(W0), coc \in CloseOutcomes :
        /\ Idle /\ HasGraph
        /\ Returns("authenticate", authenticate(W0, "root", pw, oc, coc))
        /\ UNCHANGED openArgs

Execute ==
    \E rq \in Requests, oc \in RpcOutcomesOn(W0) :
        /\ Idle /\ HasGraph
        /\ Returns("execute", execute(W0, rq[1], rq[2], oc))
        /\ UNCHANGED openArgs

ExecuteWithParameter ==
    \E rq \in Requests, ps \in ParamMaps, oc \in RpcOutcomesOn(W0) :
        /\ Idle /\ HasGraph
        /\ Returns("executeWithParameter", executeWithParameter(W0, rq[1], rq[2], ps, oc))
        /\ UNCHANGED openArgs

ExecuteWithParameterTimeout ==
    \E rq \in Requests, ps \in ParamMaps, oc \in RpcOutcomesOn(W0) :
        /\ Idle /\ HasGraph
        /\ Returns("executeWithParameterTimeout",
                   executeWithParameterTimeout(W0, rq[1], rq[2], ps, 100, oc))
        /\ UNCHANGED openArgs

ExecuteJson ==
    \E rq \in Requests, o \in JsonOutcomes :
        /\ Idle /\ HasGraph
        /\ o[1] \in RpcOutcomesOn(W0)
        /\ o[1] = "TIMED_OUT" => Room(o[2])
        /\ Returns("executeJson", executeJson(W0, rq[1], rq[2], o[1], o[2], o[3]))
        /\ UNCHANGED openArgs

ExecuteJsonWithParam ==
    \E rq \in Requests, ps \in ParamMaps, o \in JsonOutcomes :
        /\ Idle /\ HasGraph
        /\ o[1] \in RpcOutcomesOn(W0)
        /\ o[1] = "TIMED_OUT" => Room(o[2])
        /\ Returns("ExecuteJsonWithParameter",
                   ExecuteJsonWithParameter(W0, rq[1], rq[2], ps, o[1], o[2], o[3]))
        /\ UNCHANGED openArgs

Ping ==
    \E oc \in RpcOutcomesOn(W0) :
        /\ Idle /\ HasGraph
        /\ Returns("ping", ping(W0, oc))
        /\ UNCHANGED openArgs

SignOut ==
    \E sid \in SessionIDs, oc \in RpcOutcomesOn(W0) :
        /\ Idle /\ HasGraph
        /\ Returns("signOut", signOut(W0, sid, oc))
        /\ UNCHANGED openArgs

Release ==
    /\ Idle
    /\ cn.returnedAt < MaxClock
    /\ Returns("release", release(W0, cn.returnedAt + 1))
    /\ UNCHANGED openArgs

Close ==
    /\ Idle /\ HasGraph
    /\ Returns("close", close(W0))
    /\ UNCHANGED openArgs

\* the caller takes the result; the record of the call is dropped
Return ==
    /\ ~Idle
    /\ log' = <<>>
    /\ ret' = [op |-> "none", val |-> NilVal, err |-> NoErr]
    /\ UNCHANGED <<cn, transports, openArgs>>

Next ==
    \/ Open
    \/ Reopen
    \/ Authenticate
    \/ Execute
    \/ ExecuteWithParameter
    \/ ExecuteWithParameterTimeout
    \/ ExecuteJson
    \/ ExecuteJsonWithParam
    \/ Ping
    \/ SignOut
    \/ Release
    \/ Close
    \/ Return

Spec == Init /\ [][Next]_vars

----------------------------------------------------------------------------
\* The record of the last call.

IsJsonCall == ret.op \in {"executeJson", "ExecuteJsonWithParameter"}
JsonRpcs == {i \in DOMAIN log : log[i].ev = "ExecuteJsonWithParameter"}
Reopens == {i \in DOMAIN log : log[i].ev = "reopen"}
Built == {i \in DOMAIN log : log[i].ev = "New"}
Last == log[Len(log)]
FirstTimedOut == IsJsonCall /\ log[1].res = "TIMED_OUT"
ReopenSucceeded ==
    \E i \in DOMAIN log : log[i].ev = "VerifyClientVersion" /\ log[i].res = "verify_ok"

\* the text open's error starts with, read off the last stub call of a failed attempt
OpenFailureText ==
    CASE Last.ev = "open" -> "failed to create a net.Conn-backed Transport,: "
      [] Last.ev = "Open" /\ Last.res = "err" -> "failed to open transport, error: "
      [] Last.ev = "Open" /\ Last.res = "off" -> "transport is off"
      [] Last.ev = "Close" -> "failed to verify client handshakeKey: "
      [] Last.ev = "VerifyClientVersion" -> "incompatible handshakeKey between client and server: "
      [] OTHER -> "?"

----------------------------------------------------------------------------
\* C1: when open or reopen returns, either the connection's transport is open
\* with its handshake verified and no error was returned, or the connection
\* is closed and an error was returned; no transport is open while its
\* handshake was not verified.
OpenLeavesVerifiedOrClosed ==
    /\ ret.op \in {"open", "reopen"} =>
          \/ /\ cn.graph # 0
             /\ transports[cn.graph].open /\ transports[cn.graph].verified
             /\ ret.err = NoErr
          \/ /\ cn.graph = 0 \/ ~transports[cn.graph].open
             /\ ret.err # NoErr
    /\ \A t \in DOMAIN transports : transports[t].open => transports[t].verified

\* C2: the open inside a reopen is called with the six values the caller
\* passed to the open that built the transport (stated for the reopen of a
\* transport that the caller's last open built and whose handshake was verified).
ReopenUsesOriginalArgs ==
    \A r \in Reopens : \A i \in DOMAIN log :
        (/\ i > r /\ log[i].ev = "open"
         /\ openArgs # <<>> /\ openArgs[2] = log[r].t
         /\ transports[log[r].t].verified)
            => log[i].arg = openArgs[1]

\* C3: in one ExecuteJsonWithParameter call, a first RPC that times out is
\* followed by exactly one reopen and, when the reopen succeeds, by exactly
\* one re-issue of the same request; after any other result of the first
\* RPC nothing else is called and that result is returned as it is.
JsonRetryOnlyOnTimeout ==
    IsJsonCall =>
        /\ log[1].ev = "ExecuteJsonWithParameter"
        /\ IF log[1].res = "TIMED_OUT"
           THEN /\ Reopens = {2}
                /\ IF ReopenSucceeded
                   THEN /\ JsonRpcs = {1, Len(log)}
                        /\ Len(log) > 1
                        /\ Last.arg = log[1].arg
                   ELSE JsonRpcs = {1}
           ELSE /\ Len(log) = 1
                /\ ret.val = RpcResponse("ExecuteJsonWithParameter", log[1].res, log[1].t)
                /\ ret.err = RpcError(log[1].res, log[1].t)

JsonRetriedOnce ==
    /\ FirstTimedOut /\ ReopenSucceeded
    /\ Cardinality(JsonRpcs) = 2

\* C4: when the first RPC timed out and the reopen succeeded, the call
\* returns the payload and error of the second RPC, sent on the fresh
\* transport with the same sessionID, statement and params; the timeout of
\* the first RPC is not returned.
JsonRetryReturnsSecondResult ==
    (FirstTimedOut /\ ReopenSucceeded) =>
        /\ Last.ev = "ExecuteJsonWithParameter"
        /\ Last.t = cn.graph /\ Last.t # log[1].t
        /\ Last.arg = log[1].arg
        /\ ret.val = RpcResponse("ExecuteJsonWithParameter", Last.res, Last.t)
        /\ ret.err = RpcError(Last.res, Last.t)
        /\ ret.err # RpcError("TIMED_OUT", log[1].t)
        /\ Last.res = "ok" => (ret.err = NoErr /\ ret.val.kind = "ExecuteJsonWithParameter")

JsonRetrySucceeded ==
    /\ FirstTimedOut /\ ReopenSucceeded
    /\ Last.res = "ok" /\ ret.err = NoErr

JsonRetryFailed ==
    /\ FirstTimedOut /\ ReopenSucceeded
    /\ Last.res = "END_OF_FILE" /\ ret.err # NoErr

\* C5: when the first RPC timed out and the reopen failed, the call returns
\* the reopen's error with a nil payload, not the timeout, and sends the
\* request no second time.
JsonReopenFailureReturned ==
    (FirstTimedOut /\ ~ReopenSucceeded) =>
        /\ ret.val = NilVal
        /\ ret.err.cls = "error"
        /\ ret.err.msg[1] = OpenFailureText
        /\ ret.err # RpcError("TIMED_OUT", log[1].t)
        /\ JsonRpcs = {1}

JsonReopenRejected ==
    /\ FirstTimedOut /\ ~ReopenSucceeded
    /\ Last.ev = "VerifyClientVersion" /\ Last.res = "verify_rejected"

\* C6: one ExecuteJsonWithParameter call reopens at most once and sends at
\* most two requests; a re-issued request that times out is the last thing
\* the call does, and its timeout is returned.
JsonAtMostOneRetry ==
    IsJsonCall =>
        /\ Cardinality(Reopens) <= 1
        /\ Cardinality(Built) <= 1
        /\ Cardinality(JsonRpcs) <= 2
        /\ \A i \in JsonRpcs :
              (i > 1 /\ log[i].res = "TIMED_OUT") =>
                  /\ i = Len(log)
                  /\ ret.err = TransportException("TIMED_OUT", log[i].t)
                  /\ ret.val = NilVal

JsonRetryTimedOut ==
    /\ IsJsonCall
    /\ Cardinality(JsonRpcs) = 2
    /\ Last.res = "TIMED_OUT"

\* C7: at most one transport built for the connection is open, in every
\* state and after every stub call of a handler.
AtMostOneOpenTransport ==
    /\ OpenCount(transports) <= 1
    /\ \A i \in DOMAIN log : log[i].nopen <= 1

\* C8: a VerifyClientVersion RPC that fails is followed by the close of the
\* transport, and a wrapped error is returned; a reply with an error code
\* other than SUCCEEDED makes the "incompatible" error with the server's
\* message, and the transport is not closed: it is open on return.
VerifyFailureHandling ==
    \A i \in DOMAIN log :
        log[i].ev = "VerifyClientVersion" =>
            /\ log[i].res = "verify_rpc_err" =>
                  /\ i < Len(log) /\ log[i + 1].ev = "Close" /\ log[i + 1].t = log[i].t
                  /\ ~transports[log[i].t].open
                  /\ ret.err.cls = "error" /\ Len(ret.err.msg) = 2
                  /\ ret.err.msg[1] = "failed to verify client handshakeKey: "
            /\ log[i].res = "verify_rejected" =>
                  /\ i = Len(log)
                  /\ transports[log[i].t].open
                  /\ ret.err.cls = "error"
                  /\ ret.err.msg = <<"incompatible handshakeKey between client and server: ", ServerMsg>>

VerifyRpcFailed ==
    /\ ret.op = "open"
    /\ \E i \in DOMAIN log : log[i].ev = "VerifyClientVersion" /\ log[i].res = "verify_rpc_err"

VerifyRejected ==
    /\ ret.op = "open"
    /\ Last.ev = "VerifyClientVersion" /\ Last.res = "verify_rejected"
    /\ transports[cn.graph].open

\* C9: authenticate, when the Authenticate RPC fails, closes the transport
\* and returns a nil response with the wrapped authentication error, or
\* with the close failure in its place when Close fails too; when the RPC
\* succeeds it returns the response as it is and changes nothing.
AuthenticateErrorHandling ==
    [][(ret.op = "none" /\ ret'.op = "authenticate") =>
          /\ log'[1].ev = "Authenticate" /\ log'[1].t = cn.graph
          /\ cn' = cn
          /\ IF log'[1].res = "ok"
             THEN /\ Len(log') = 1
                  /\ ret'.val = RpcResponse("Authenticate", "ok", cn.graph)
                  /\ ret'.err = NoErr
                  /\ transports' = transports
                  /\ transports'[cn.graph].open
             ELSE /\ Len(log') = 2
                  /\ log'[2].ev = "Close" /\ log'[2].t = cn.graph
                  /\ transports' = [transports EXCEPT ![cn.graph].open = FALSE]
                  /\ ret'.val = NilVal
                  /\ ret'.err = IF log'[2].res = "err"
                                THEN Errorf("fail to close transport, error: ",
                                            PlainError("close failed", cn.graph))
                                ELSE Errorf("authentication fails, ",
                                            RpcError(log'[1].res, cn.graph))]_vars

AuthenticateFailedCloseFailed ==
    /\ ret.op = "authenticate"
    /\ Len(log) = 2 /\ log[2].res = "err"
    /\ ret.err.msg[1] = "fail to close transport, error: "

AuthenticateFailedClosed ==
    /\ ret.op = "authenticate"
    /\ Len(log) = 2 /\ log[2].res = "ok"

\* C10: execute, executeWithParameter and executeWithParameterTimeout send
\* one request, return its response or its error as it is, and leave the
\* connection and its transports as they were: no close, no reopen, no
\* second request, also after a TIMED_OUT transport exception.
ExecuteLeavesConnection ==
    [][(ret.op = "none"
        /\ ret'.op \in {"execute", "executeWithParameter", "executeWithParameterTimeout"}) =>
          /\ cn' = cn
          /\ transports' = transports
          /\ Len(log') = 1
          /\ log'[1].ev \in {"ExecuteWithParameter", "ExecuteWithTimeout"}
          /\ log'[1].t = cn.graph
          /\ ret'.err = RpcError(log'[1].res, cn.graph)
          /\ ret'.val = RpcResponse(log'[1].ev, log'[1].res, cn.graph)]_vars

ExecuteTimedOutStillOpen ==
    /\ ret.op \in {"execute", "executeWithParameter", "executeWithParameterTimeout"}
    /\ ret.err = TransportException("TIMED_OUT", cn.graph)
    /\ transports[cn.graph].open

\* C11: ping sends the one request of execute(0, "YIELD 1"), returns true
\* when that request returns no error and false when it returns one, hands
\* no error to the caller, and leaves the connection and its transports as
\* they were (no close, no reopen).
PingReflectsExecute ==
    [][(ret.op = "none" /\ ret'.op = "ping") =>
          /\ Len(log') = 1
          /\ log'[1].ev = "ExecuteWithParameter" /\ log'[1].t = cn.graph
          /\ log'[1].arg = <<0, "YIELD 1", "{}">>
          /\ ret'.val.kind = IF RpcError(log'[1].res, cn.graph) = NoErr THEN "true" ELSE "false"
          /\ ret'.err = NoErr
          /\ cn' = cn
          /\ transports' = transports]_vars

PingFalseOnTimeout ==
    /\ ret.op = "ping"
    /\ log[1].res = "TIMED_OUT" /\ ret.val.kind = "false"
    /\ transports[cn.graph].open

\* C12: release calls nothing on the stub and changes only returnedAt: the
\* address, timeout, TLS config, transport variant, headers, handshake key,
\* the handle and every transport's state are as before, also on a
\* connection that was never opened or is closed.
ReleaseOnlyStampsReturnedAt ==
    [][(ret.op = "none" /\ ret'.op = "release") =>
          /\ log' = <<>>
          /\ cn' = [cn EXCEPT !.returnedAt = cn'.returnedAt]
          /\ transports' = transports
          /\ ret'.val = NilVal /\ ret'.err = NoErr]_vars

ReleasedNeverOpened ==
    /\ ret.op = "release"
    /\ cn.graph = 0 /\ transports = <<>>
    /\ cn.returnedAt = 1

ReleasedClosed ==
    /\ ret.op = "release"
    /\ cn.graph # 0 /\ ~transports[cn.graph].open /\ cn.timeout = 2
    /\ cn.returnedAt = 1

RpcNames ==
    {"VerifyClientVersion", "Authenticate", "ExecuteWithParameter", "ExecuteWithTimeout",
     "ExecuteJsonWithParameter", "Signout"}

\* C13: nothing called after a reopen began is an Authenticate; in an
\* ExecuteJsonWithParameter call that re-issued its request, the only RPC
\* between the timed-out request and the re-issued one is one
\* VerifyClientVersion, sent on the fresh transport, and the re-issued
\* request carries the sessionID of the first.
ReopenNeverAuthenticates ==
    /\ \A r \in Reopens : \A i \in DOMAIN log : i > r => log[i].ev # "Authenticate"
    /\ (FirstTimedOut /\ Cardinality(JsonRpcs) = 2) =>
          LET between == {i \in 2..(Len(log) - 1) : log[i].ev \in RpcNames}
          IN  /\ Last.ev = "ExecuteJsonWithParameter"
              /\ Last.t # log[1].t
              /\ Cardinality(between) = 1
              /\ \A i \in between : log[i].ev = "VerifyClientVersion" /\ log[i].t = Last.t
              /\ Last.arg[1] = log[1].arg[1]

JsonReissuedWithSession ==
    /\ FirstTimedOut /\ Cardinality(JsonRpcs) = 2
    /\ log[1].arg[1] = 7 /\ Last.arg[1] = 7
    /\ Last.res = "ok"

OpenAttempts == {i \in DOMAIN log : log[i].ev = "open"}
Opened == {i \in DOMAIN log : log[i].ev = "Open" /\ log[i].res = "ok"}
Verifies == {i \in DOMAIN log : log[i].ev = "VerifyClientVersion"}

\* one call holds at most one open attempt; the transport it opened is sent
\* one VerifyClientVersion right after Open, and nothing of an open attempt
\* follows that request but the Close of its transport
VerifiedOncePerOpen ==
    /\ Cardinality(OpenAttempts) <= 1
    /\ Cardinality(Verifies) = Cardinality(Opened)
    /\ \A i \in Opened :
          /\ i + 1 \in Verifies /\ log[i + 1].t = log[i].t
          /\ \A o \in OpenAttempts : o < i
    /\ \A v \in Verifies : \A j \in DOMAIN log :
          j > v => log[j].ev \notin {"open", "New", "Open", "VerifyClientVersion"}
    /\ \A v \in Verifies : \A j \in DOMAIN log :
          (j > v /\ log[v].res # "verify_ok") => log[j].ev = "Close" /\ log[j].t = log[v].t

\* C15 as stated: every open attempt whose transport opens sends exactly one
\* VerifyClientVersion, never a second one, and the request carries the
\* handshake key the attempt was given, the empty key when none is configured.
VerifyCarriesHandshakeKey ==
    /\ VerifiedOncePerOpen
    /\ \A v \in Verifies : \A o \in OpenAttempts :
          log[v].arg.version = log[o].arg.handshakeKey

\* C15 amended: every open attempt whose transport opens sends exactly one
\* VerifyClientVersion, never a second one; the request carries the handshake
\* key when one is configured, and the version its constructor gave it when
\* none is configured.
VerifyOnceWithKeyOrDefault ==
    /\ VerifiedOncePerOpen
    /\ \A v \in Verifies : \A o \in OpenAttempts :
          log[v].arg.version = IF log[o].arg.handshakeKey # ""
                               THEN log[o].arg.handshakeKey
                               ELSE "default"

ReopenVerifiedWithoutKey ==
    /\ ret.op = "reopen" /\ ret.err # NoErr
    /\ cn.handshakeKey = ""
    /\ Cardinality(Verifies) = 1
    /\ \A v \in Verifies : log[v].res = "verify_rejected" /\ log[v].arg.version # ""

\* C16: a call whose open attempt fails in the transport constructor returns
\* an error, leaves cn.graph as it was before the
\* call, builds no stub, calls neither Open nor VerifyClientVersion and
\* opens no transport.
ConstructorFailureKeepsHandle ==
    [][(/\ ret.op = "none" /\ ret'.op # "none"
        /\ \E i \in DOMAIN log' : log'[i].ev = "open" /\ log'[i].res = "ctor_err") =>
          /\ ret'.err # NoErr /\ ret'.val = NilVal
          /\ cn'.graph = cn.graph
          /\ Len(transports') = Len(transports)
          /\ \A j \in DOMAIN log' : log'[j].ev \notin {"New", "Open", "VerifyClientVersion"}
          /\ \A t \in DOMAIN transports' : transports'[t].open => transports[t].open]_vars

OpenFailedInConstructor ==
    /\ ret.op = "open" /\ ret.err # NoErr
    /\ Last.ev = "open" /\ Last.res = "ctor_err"
    /\ cn.graph # 0 /\ transports[cn.graph].open /\ transports[cn.graph].verified

\* C17 as stated: in a reopen the new transport is constructed and stored
\* first and the old transport is released only after that, so every Close
\* of the old transport follows the construction of the new one.
ReopenReplaceThenDiscard ==
    \A r \in Reopens : \A c \in DOMAIN log :
        (c > r /\ log[c].ev = "Close" /\ log[c].t = log[r].t)
            => \E n \in Built : r < n /\ n < c /\ log[n].t # log[r].t

\* C17 amended: a reopen first closes the old transport and only then
\* constructs the new one and stores it in cn.graph; the old transport stays
\* closed, and when nothing is constructed cn.graph still names it.
ReopenDiscardThenReplace ==
    \A r \in Reopens :
        /\ Len(log) > r
        /\ log[r + 1].ev = "Close" /\ log[r + 1].t = log[r].t
        /\ ~transports[log[r].t].open
        /\ \A n \in Built :
              n > r => /\ n > r + 1
                       /\ log[n].t # log[r].t
                       /\ cn.graph = log[n].t
        /\ (\A n \in Built : n < r) => cn.graph = log[r].t

ReopenReplacedOpenTransport ==
    /\ ret.op = "reopen" /\ ret.err = NoErr
    /\ log[2].ev = "Close" /\ log[2].arg = <<TRUE>>
    /\ \E n \in Built : n > 2 /\ cn.graph = log[n].t
    /\ transports[cn.graph].open /\ ~transports[log[1].t].open

\* C18: a re-issued ExecuteJsonWithParameter request is sent on a transport
\* other than the one the first request timed out on, which the reopen of
\* this call constructed, whose Open succeeded and which answered
\* VerifyClientVersion with SUCCEEDED before the request was sent.
ReissueOnlyOnVerifiedTransport ==
    IsJsonCall =>
        \A i \in JsonRpcs : i > 1 =>
            /\ log[i].t # log[1].t
            /\ \E r \in Reopens : \E n \in Built : \E o \in Opened : \E v \in Verifies :
                  /\ r < n /\ n < o /\ o < v /\ v < i
                  /\ log[n].t = log[i].t /\ log[o].t = log[i].t /\ log[v].t = log[i].t
                  /\ log[v].res = "verify_ok"
            /\ transports[log[i].t].open /\ transports[log[i].t].verified
            /\ ~transports[log[1].t].open

JsonReissuedOnFreshTransport ==
    /\ FirstTimedOut
    /\ Len(log) > 1 /\ Last.ev = "ExecuteJsonWithParameter" /\ Last.res = "app"
    /\ Last.t = cn.graph /\ Last.t # log[1].t
    /\ transports[Last.t].verified

\* what a call whose first ExecuteJsonWithParameter request timed out has
\* done: the next call on a transport is the Close of the transport of that
\* request, nothing later is called on it, and it is closed at the end
TimedOutTransportClosedFirst ==
    FirstTimedOut =>
        /\ Len(log) >= 3
        /\ log[2].ev = "reopen" /\ log[2].t = log[1].t
        /\ log[3].ev = "Close" /\ log[3].t = log[1].t
        /\ \A j \in DOMAIN log : j > 3 => log[j].t # log[1].t
        /\ ~transports[log[1].t].open

====
